---------------------------- MODULE Spec2Model ----------------------------
(***************************************************************************)
(* SQLOtter: the User, Wallet and Transaction repositories, the input      *)
(* validator they call, and the session handling around the store.         *)
(*                                                                         *)
(* Python strings are sequences of one-character strings, so that the      *)
(* validators, sanitize_string and ILIKE are computed character by         *)
(* character.  Python's None is the one-element sequence <<"None">>, which *)
(* no string is (a string's elements are single characters).  The          *)
(* relational store is an opaque collaborator: a set of rows per table,    *)
(* a commit that may fail, and the unique constraints the models declare.  *)
(***************************************************************************)
EXTENDS Integers, Sequences, FiniteSets, TLC

(***************************************************************************)
(* Characters and strings                                                  *)
(***************************************************************************)
None == <<"None">>

LowerSeq == <<"a","b","c","d","e","f","g","h","i","j","k","l","m",
              "n","o","p","q","r","s","t","u","v","w","x","y","z">>
UpperSeq == <<"A","B","C","D","E","F","G","H","I","J","K","L","M",
              "N","O","P","Q","R","S","T","U","V","W","X","Y","Z">>
DigitSeq == <<"0","1","2","3","4","5","6","7","8","9">>

Range(f) == {f[i] : i \in DOMAIN f}

LowerCh == Range(LowerSeq)
UpperCh == Range(UpperSeq)
DigitCh == Range(DigitSeq)
AlnumCh == LowerCh \cup UpperCh \cup DigitCh
HexCh   == DigitCh \cup {"a","b","c","d","e","f","A","B","C","D","E","F"}

Rep(c, n) == [i \in 1..n |-> c]

AllIn(s, cls) == \A i \in 1..Len(s) : s[i] \in cls

StartsWith(s, p) == Len(s) >= Len(p) /\ SubSeq(s, 1, Len(p)) = p

\* str.replace(sub, ''): every occurrence of sub removed, left to right.
RECURSIVE RemoveAll(_, _)
RemoveAll(s, sub) ==
    IF Len(s) < Len(sub) \/ Len(sub) = 0 THEN s
    ELSE IF SubSeq(s, 1, Len(sub)) = sub
         THEN RemoveAll(SubSeq(s, Len(sub) + 1, Len(s)), sub)
         ELSE <<Head(s)>> \o RemoveAll(Tail(s), sub)

\* str.strip(chars): leading and trailing characters of the set removed.
RECURSIVE Strip(_, _)
Strip(s, chars) ==
    IF Len(s) = 0 THEN s
    ELSE IF s[1] \in chars THEN Strip(Tail(s), chars)
    ELSE IF s[Len(s)] \in chars THEN Strip(SubSeq(s, 1, Len(s) - 1), chars)
    ELSE s

\* A pattern's closing $ matches at the end of the string and also just
\* before a newline that ends it: the text the rest of the pattern must cover.
DollarBodies(s) ==
    {s} \cup (IF Len(s) > 0 /\ s[Len(s)] = "\n"
              THEN {SubSeq(s, 1, Len(s) - 1)} ELSE {})

ToLower(c) ==
    IF c \in UpperCh
    THEN LowerSeq[CHOOSE i \in DOMAIN UpperSeq : UpperSeq[i] = c]
    ELSE c

LowerStr(s) == [i \in 1..Len(s) |-> ToLower(s[i])]

(***************************************************************************)
(* InputValidator.  A validator's result is "True", "False", or the name   *)
(* of the exception that escapes it.                                       *)
(***************************************************************************)

\* uuid.UUID(value): None is a TypeError (not caught by `except ValueError`);
\* a string is accepted when, with urn:/uuid: removed, braces stripped and
\* hyphens removed, it is 32 hexadecimal digits.
UuidHex(value) ==
    RemoveAll(Strip(RemoveAll(RemoveAll(value, <<"u","r","n",":">>),
                              <<"u","u","i","d",":">>),
                    {"{", "}"}),
              <<"-">>)

validate_uuid(value) ==
    IF value = None THEN "TypeError"
    ELSE IF Len(UuidHex(value)) = 32 /\ AllIn(UuidHex(value), HexCh)
         THEN "True" ELSE "False"

EmailLocalCh  == AlnumCh \cup {".", "_", "%", "+", "-"}
EmailDomainCh == AlnumCh \cup {".", "-"}
LetterCh      == LowerCh \cup UpperCh

\* ^[a-zA-Z0-9._%+-]+@[a-zA-Z0-9.-]+\.[a-zA-Z]{2,}$
EmailMatch(s) ==
    \E i \in 2..Len(s) : \E j \in (i + 2)..Len(s) :
        /\ s[i] = "@"
        /\ AllIn(SubSeq(s, 1, i - 1), EmailLocalCh)
        /\ AllIn(SubSeq(s, i + 1, j - 1), EmailDomainCh)
        /\ s[j] = "."
        /\ Len(s) - j >= 2
        /\ AllIn(SubSeq(s, j + 1, Len(s)), LetterCh)

validate_email(email) ==
    IF email = None THEN "TypeError"
    ELSE IF \E b \in DollarBodies(email) : EmailMatch(b)
         THEN "True" ELSE "False"

UsernameCh == AlnumCh \cup {".", "_", "-"}

\* ^[a-zA-Z0-9._-]{3,50}$
UsernameMatch(s) == Len(s) >= 3 /\ Len(s) <= 50 /\ AllIn(s, UsernameCh)

validate_username(username) ==
    IF username = None THEN "TypeError"
    ELSE IF \E b \in DollarBodies(username) : UsernameMatch(b)
         THEN "True" ELSE "False"

BTC  == <<"B","T","C">>
ETH  == <<"E","T","H">>
LTC  == <<"L","T","C">>
DOGE == <<"D","O","G","E">>
XRP  == <<"X","R","P">>
Currencies == {BTC, ETH, LTC, DOGE, XRP}

Base58ishCh == AlnumCh \ {"l", "0", "I", "O"}

\* [a-zA-H-HJ-NP-Z0-9]: a-z, A-H, a literal hyphen, H, J-N, P-Z, 0-9
BtcBodyCh == (AlnumCh \ {"I", "O"}) \cup {"-"}

PrefixBody(s, prefixes, cls, lo, hi) ==
    \E p \in prefixes :
        /\ StartsWith(s, p)
        /\ Len(s) - Len(p) >= lo
        /\ Len(s) - Len(p) <= hi
        /\ AllIn(SubSeq(s, Len(p) + 1, Len(s)), cls)

\* The `patterns` table of validate_crypto_address.
PatternMatch(currency, s) ==
    CASE currency = BTC ->
           PrefixBody(s, {<<"b","c","1">>, <<"1">>, <<"3">>}, BtcBodyCh, 25, 39)
      [] currency = ETH ->
           PrefixBody(s, {<<"0","x">>}, HexCh, 40, 40)
      [] currency = LTC ->
           PrefixBody(s, {<<"L">>, <<"M">>, <<"3">>}, Base58ishCh, 26, 33)
      [] currency = DOGE ->
           /\ Len(s) = 34
           /\ s[1] = "D"
           /\ s[2] \in {"5","6","7","8","9"} \cup (Range(SubSeq(UpperSeq, 1, 21)) \ {"I", "O"})
           /\ AllIn(SubSeq(s, 3, 34), Base58ishCh)
      [] currency = XRP ->
           PrefixBody(s, {<<"r">>}, AlnumCh, 24, 34)
      [] OTHER -> FALSE

ReMatch(currency, address) ==
    \E b \in DollarBodies(address) : PatternMatch(currency, b)

validate_crypto_address(address, currency) ==
    IF address = None THEN "TypeError"
    ELSE IF currency # None /\ currency # <<>> /\ currency \in Currencies
         THEN (IF ReMatch(currency, address) THEN "True" ELSE "False")
         ELSE (IF \E c \in Currencies : ReMatch(c, address)
               THEN "True" ELSE "False")

\* re.sub(r"[';\"\\]", '', value)
sanitize_string(value) ==
    SelectSeq(value, LAMBDA c : c \notin {"'", ";", "\"", "\\"})


\* SQL LIKE: % is any run of characters, _ any one character, \ escapes.
RECURSIVE Like(_, _)
Like(p, s) ==
    IF Len(p) = 0 THEN Len(s) = 0
    ELSE IF p[1] = "%"
         THEN \E k \in 0..Len(s) : Like(Tail(p), SubSeq(s, k + 1, Len(s)))
    ELSE IF p[1] = "\\" /\ Len(p) >= 2
         THEN Len(s) > 0 /\ p[2] = s[1] /\ Like(Tail(Tail(p)), Tail(s))
    ELSE /\ Len(s) > 0
         /\ (p[1] = "_" \/ p[1] = s[1])
         /\ Like(Tail(p), Tail(s))

\* column.ilike(f"%{term}%"); a NULL column matches nothing.
ilike(column, term) ==
    /\ column # None
    /\ Like(LowerStr(<<"%">> \o term \o <<"%">>), LowerStr(column))

(***************************************************************************)
(* Bounds and the values the callers pass                                  *)
(***************************************************************************)
\* Number of commits (each stamps its row with datetime.utcnow()) in one
\* behaviour of the whole program and of each repository on its own.
MaxCommits       == 1
MaxUserCommits   == 3
MaxWalletCommits == 3
MaxTxCommits     == 2
MaxStatusCommits == 3
\* Sessions left open at any time.
MaxOpenSessions  == 2

Uuid(c) == Rep(c, 8) \o <<"-">> \o Rep(c, 4) \o <<"-">> \o Rep(c, 4)
             \o <<"-">> \o Rep(c, 4) \o <<"-">> \o Rep(c, 12)

\* What uuid.uuid4() can return for a new user, wallet, transaction.
UserIds   == {Uuid("a"), Uuid("b")}
WalletIds == {Uuid("c"), Uuid("d")}
TxIds     == {Uuid("e"), Uuid("f")}
BadId     == <<"x", "'", ";">>

PyTrue  == <<"True">>
PyFalse == <<"False">>

E1       == <<"a","@","b",".","c","o">>
E2       == <<"z","@","b",".","c","o">>
BadEmail == <<"a","@","b">>
N1       == <<"a","b","c">>
N2       == <<"z","e","d">>
Probe    == <<"x","'",";"," ","-","-">>
H1       == <<"$","2","b","$">>

Emails    == {E1, E2, BadEmail}
Usernames == {N1, N2, Probe}

EthAddr == <<"0", "x">> \o Rep("a", 40)
BadAddr == <<"n", "o", "p", "e">>
Unknown == <<"Z", "Z">>
Hash1   == <<"0", "x", "F", "F">>

UserIdArgs   == UserIds \cup {BadId}
WalletIdArgs == WalletIds \cup {BadId}
TxIdArgs     == TxIds \cup {BadId}
SearchTerms  == {<<"Z">>, <<"z", "e">>, Probe}
Limits       == {0, 101}
FieldMaps1 ==
    << <<[k |-> "email", v |-> E1]>>,
       <<[k |-> "is_active", v |-> PyFalse], [k |-> "email", v |-> BadEmail]>>,
       <<[k |-> "is_admin", v |-> PyTrue]>> >>
FieldMaps ==
    { <<[k |-> "email", v |-> E2]>>,
      <<[k |-> "username", v |-> N2]>>,
      <<[k |-> "username", v |-> Probe]>>,
      <<[k |-> "is_active", v |-> PyFalse], [k |-> "email", v |-> BadEmail]>>,
      <<[k |-> "is_admin", v |-> PyTrue], [k |-> "is_verified", v |-> PyTrue]>>,
      <<[k |-> "is_admin", v |-> PyTrue], [k |-> "password_hash", v |-> Probe]>>,
      <<>> }
CurrencyArgs == {ETH, BTC, Unknown}
AddressArgs  == {EthAddr, BadAddr}
Balances     == {-1, 0, 5}
TypeArgs     == {"deposit", "withdrawal", "transfer", "tranfer"}
Amounts      == {0, 5}
Fees         == {-1, 0}
DestArgs     == {None, EthAddr}
\* create_transaction's arguments: every combination with at most one
\* argument other than the valid deposit's (user, wallet, amount 5, fee 0).
ValidDeposit ==
    [user_id |-> Uuid("a"), wallet_id |-> Uuid("c"),
     transaction_type |-> "deposit", amount |-> 5, fee |-> 0,
     destination_address |-> None]
\* A withdrawal's destination: omitted, empty, well-formed, malformed.
WithdrawalDestArgs == DestArgs \cup {<<>>, BadAddr}
TxCreateArgs ==
    {a \in [user_id : UserIdArgs, wallet_id : {Uuid("c"), BadId},
            transaction_type : TypeArgs, amount : Amounts, fee : Fees,
            destination_address : DestArgs] :
        Cardinality({f \in DOMAIN a : a[f] # ValidDeposit[f]}) <= 1}
    \cup {[ValidDeposit EXCEPT !.transaction_type = "withdrawal",
                                !.destination_address = d] :
             d \in WithdrawalDestArgs}
StatusArgs   == {"completed", "refunded"}
StatusUpdateArgs == {"pending", "completed", "failed", "refunded"}
HashArgs     == {None, Hash1}
TxSearchTerms == {<<"-">>, <<"0", "X", "a">>}

\* Every value passed for an id, an email, a username, an address, a currency.
IdValues       == UserIds \cup WalletIds \cup TxIds \cup {BadId, None}
EmailValues    == Emails
UsernameValues == Usernames
AddressValues  == AddressArgs \cup DestArgs \cup WithdrawalDestArgs
CurrencyValues == CurrencyArgs \cup {None}

\* The validators' results on those values, computed once: <<value, result>>.
UuidResults     == {<<v, validate_uuid(v)>> : v \in IdValues}
EmailResults    == {<<v, validate_email(v)>> : v \in EmailValues}
UsernameResults == {<<v, validate_username(v)>> : v \in UsernameValues}
AddressResults  ==
    {<<<<a, c>>, validate_crypto_address(a, c)>> :
        a \in AddressValues, c \in CurrencyValues}

Result(table, v) == (CHOOSE p \in table : p[1] = v)[2]

UuidCheck(value)              == Result(UuidResults, value)
EmailCheck(value)             == Result(EmailResults, value)
UsernameCheck(value)          == Result(UsernameResults, value)
AddressCheck(value, currency) == Result(AddressResults, <<value, currency>>)

(***************************************************************************)
(* State                                                                   *)
(***************************************************************************)
VARIABLES
    users,          \* rows of table users
    wallets,        \* rows of table wallets
    transactions,   \* rows of table transactions
    sessions,       \* sessions obtained from Database.get_session, not closed
    now,            \* datetime.utcnow()
    call,           \* the last repository call: arguments and outcome
    created,        \* history: what create_user was called with, by the id
                    \* it returned, until update_user commits on that id
    replaced,       \* history: the transactions the last call rewrote, as
                    \* they were before it
    sql             \* the statements the last call built, and those it
                    \* passed to cursor.execute

vars ==
    <<users, wallets, transactions, sessions, now, call, created, replaced, sql>>

\* No statement built, none executed.
NoSql == [built |-> {}, executed |-> {}]

Init ==
    /\ users = {}
    /\ wallets = {}
    /\ transactions = {}
    /\ sessions = 0
    /\ now = 0
    /\ call = [op |-> "none", args |-> [none |-> 0], outcome |-> "return",
               value |-> "NoValue", rows |-> {}, exc |-> "none", opened |-> 0,
               closed |-> 0, rollbacks |-> 0, log |-> <<>>]
    /\ created = {}
    /\ replaced = {}
    /\ sql = NoSql

(***************************************************************************)
(* How a call ends.  opened/closed count db.get_session() and              *)
(* session.close(); rollbacks counts session.rollback(); log is the levels *)
(* of the lines the call logged.                                           *)
(***************************************************************************)
Outcome(outcome, value, rows, exc, opened, closed, rollbacks, log) ==
    [outcome |-> outcome, value |-> value, rows |-> rows, exc |-> exc,
     opened |-> opened, closed |-> closed, rollbacks |-> rollbacks,
     log |-> log]

\* A raise ahead of db.get_session(): a validator returned False (the
\* repository logs a warning and raises ValueError), or a validator itself
\* raised.
RejectedInSession(exc, log) == Outcome("raise", "NoValue", {}, exc, 1, 1, 0, log)
Rejected(exc, log) == Outcome("raise", "NoValue", {}, exc, 0, 0, 0, log)

\* try: ... return <bool> / finally: session.close()
Returned(value) == Outcome("return", value, {}, "none", 1, 1, 0, <<>>)

\* try: ... return <row, rows or None> / finally: session.close()
ReturnedRows(rows) == Outcome("return", "rows", rows, "none", 1, 1, 0, <<>>)

\* An exception inside try: with only `finally: session.close()`.
Propagated == Outcome("raise", "NoValue", {}, "SQLAlchemyError", 1, 1, 0, <<>>)

\* except Exception: session.rollback(); logger.error(...); raise
\* finally: session.close()
RolledBackRaised ==
    Outcome("raise", "NoValue", {}, "SQLAlchemyError", 1, 1, 1, <<"error">>)

Finish(op, args, r, u, w, t) ==
    /\ call' = [op |-> op, args |-> args, outcome |-> r.outcome,
                value |-> r.value, rows |-> r.rows, exc |-> r.exc,
                opened |-> r.opened,
                closed |-> r.closed, rollbacks |-> r.rollbacks, log |-> r.log]
    /\ sessions' = sessions + r.opened - r.closed
    /\ users' = u
    /\ wallets' = w
    /\ transactions' = t
    /\ now' = IF <<u, w, t>> = <<users, wallets, transactions>> THEN now ELSE now + 1
    /\ created' =
         IF op = "create_user" /\ r.outcome = "return"
         THEN created \cup {[id |-> x.id, email |-> args.email,
                             username |-> args.username] : x \in r.rows}
         ELSE IF op = "update_user" /\ u # users
         THEN {c \in created : c.id # args.user_id}
         ELSE created
    /\ replaced' = transactions \ t
    /\ sql' = NoSql

\* query.limit(n).all() without ORDER BY: any n of the matching rows.
Limited(rows, n) ==
    {res \in SUBSET rows :
        Cardinality(res) = (IF Cardinality(rows) < n THEN Cardinality(rows) ELSE n)}

Clamp(limit) ==
    LET lo == IF limit < 1 THEN 1 ELSE limit
    IN  IF lo < 100 THEN lo ELSE 100

\* The store may fail any execute or commit.
StoreFails == BOOLEAN

\* uuid.uuid4(): an id no row of the table has.
uuid4(pool, rows) == pool \ {r.id : r \in rows}

(***************************************************************************)
(* UserRepository                                                          *)
(***************************************************************************)
\* unique=True on users.email and users.username, and the primary key.
UserUniqueViolationNoEmail(rows) ==
    \E a, b \in rows : a # b /\ (a.id = b.id \/ a.username = b.username)
UserUniqueViolation(rows) ==
    \E a, b \in rows :
        a # b /\ (a.id = b.id \/ a.email = b.email \/ a.username = b.username)

NewUserSwapped(id, email, username, password_hash) ==
    [id |-> id, email |-> username, username |-> email,
     password_hash |-> password_hash, is_active |-> PyTrue,
     is_verified |-> PyFalse, created_at |-> now, updated_at |-> now]
NewUser(id, email, username, password_hash) ==
    [id |-> id, email |-> email, username |-> username,
     password_hash |-> password_hash, is_active |-> PyTrue,
     is_verified |-> PyFalse, created_at |-> now, updated_at |-> now]

create_user(email, username, password_hash) ==
    LET args == [email |-> email, username |-> username]
        user(new_id) == NewUser(new_id, email, username, password_hash)
        done(r, u) == Finish("create_user", args, r, u, wallets, transactions)
    IN  IF EmailCheck(email) = "TypeError"
        THEN done(Rejected("TypeError", <<>>), users)
        ELSE IF EmailCheck(email) = "False"
        THEN done(Rejected("ValueError", <<"warning">>), users)
        ELSE IF UsernameCheck(username) = "TypeError"
        THEN done(Rejected("TypeError", <<>>), users)
        ELSE IF UsernameCheck(username) = "False"
        THEN done(Rejected("ValueError", <<"warning">>), users)
        ELSE \E fail \in StoreFails, new_id \in uuid4(UserIds, users) :
               IF fail \/ UserUniqueViolation(users \cup {user(new_id)})
               THEN done(RolledBackRaised, users)
               ELSE done(ReturnedRows({user(new_id)}), users \cup {user(new_id)})

get_user_by_id(user_id) ==
    LET args == [user_id |-> user_id]
        done(r) == Finish("get_user_by_id", args, r, users, wallets, transactions)
    IN  IF UuidCheck(user_id) = "TypeError"
        THEN done(Rejected("TypeError", <<>>))
        ELSE IF UuidCheck(user_id) = "False"
        THEN done(Rejected("ValueError", <<"warning">>))
        ELSE \E fail \in StoreFails : IF fail
        THEN done(Propagated)
        ELSE done(ReturnedRows({u \in users : u.id = user_id}))

get_user_by_email(email) ==
    LET args == [email |-> email]
        done(r) == Finish("get_user_by_email", args, r, users, wallets, transactions)
    IN  IF EmailCheck(email) = "TypeError"
        THEN done(Rejected("TypeError", <<>>))
        ELSE IF EmailCheck(email) = "False"
        THEN done(Rejected("ValueError", <<"warning">>))
        ELSE \E fail \in StoreFails : IF fail
        THEN done(Propagated)
        ELSE done(ReturnedRows({u \in users : u.email = email}))

\* filter(a, b) joins its criteria with AND.
SearchUsersFilter(term) ==
    {u \in users : ilike(u.username, term) /\ ilike(u.email, term)}

search_users(search_term, limit) ==
    LET args == [search_term |-> search_term, limit |-> limit]
        done(r) == Finish("search_users", args, r, users, wallets, transactions)
    IN  IF search_term = None
        THEN done(Rejected("TypeError", <<>>))
        ELSE \E fail \in StoreFails : IF fail
        THEN done(Propagated)
        ELSE \E res \in Limited(SearchUsersFilter(sanitize_string(search_term)),
                                Clamp(limit)) :
                done(ReturnedRows(res))


AllowedFieldsWithHash ==
    {"email", "username", "is_active", "is_verified", "password_hash"}
AllowedFields == {"email", "username", "is_active", "is_verified"}

\* The loop over fields.items(): the first allowed field whose value fails
\* its validator ends the call; "ok" when the loop runs to its end.
RECURSIVE FieldsCheck(_)
FieldsCheck(fields) ==
    IF Len(fields) = 0 THEN "ok"
    ELSE LET f == Head(fields)
             r == IF f.k = "email" THEN EmailCheck(f.v)
                  ELSE IF f.k = "username" THEN UsernameCheck(f.v)
                  ELSE "True"
         IN  IF f.k \notin AllowedFields THEN FieldsCheck(Tail(fields))
             ELSE IF r = "True" THEN FieldsCheck(Tail(fields))
             ELSE IF r = "False" THEN "ValueError"
             ELSE r

\* update_data: the allowed fields, in the order given.
UpdateData(fields) == SelectSeq(fields, LAMBDA f : f.k \in AllowedFields)

RECURSIVE SetAttrs(_, _)
SetAttrs(row, data) ==
    IF Len(data) = 0 THEN row
    ELSE SetAttrs([row EXCEPT ![Head(data).k] = Head(data).v], Tail(data))

\* The value update_user returns when the commit went through: the method
\* ends without a return statement.
UpdateUserCommitted == "None"

\* except Exception: rollback, log, and no raise: the method ends.
UpdateUserFailed == Outcome("return", "None", {}, "none", 1, 1, 1, <<"error">>)

update_user(user_id, fields) ==
    LET args == [user_id |-> user_id, fields |-> fields]
        done(r, u) == Finish("update_user", args, r, u, wallets, transactions)
        found == {u \in users : u.id = user_id}
    IN  IF UuidCheck(user_id) = "TypeError"
        THEN done(Rejected("TypeError", <<>>), users)
        ELSE IF UuidCheck(user_id) = "False"
        THEN done(Rejected("ValueError", <<"warning">>), users)
        ELSE IF FieldsCheck(fields) = "TypeError"
        THEN done(Rejected("TypeError", <<>>), users)
        ELSE IF FieldsCheck(fields) = "ValueError"
        THEN done(Rejected("ValueError", <<"warning">>), users)
        ELSE IF Len(UpdateData(fields)) = 0
        THEN done(Outcome("return", "False", {}, "none", 0, 0, 0, <<>>), users)
        ELSE \E fail \in StoreFails : IF fail
        THEN done(UpdateUserFailed, users)
        ELSE IF found = {}
        THEN done(Returned("False"), users)
        ELSE \E user \in found :
               LET new == [SetAttrs(user, UpdateData(fields))
                              EXCEPT !.updated_at = now]
                   rows == (users \ {user}) \cup {new}
               IN  IF UserUniqueViolation(rows)
                   THEN done(UpdateUserFailed, users)
                   ELSE done(Returned(UpdateUserCommitted), rows)

(***************************************************************************)
(* WalletRepository                                                        *)
(***************************************************************************)
NewWallet(id, user_id, currency, address) ==
    [id |-> id, user_id |-> user_id, currency |-> currency,
     address |-> address, balance |-> 0, is_active |-> PyTrue,
     created_at |-> now, updated_at |-> now]

create_wallet(user_id, currency, address) ==
    LET args == [user_id |-> user_id, currency |-> currency, address |-> address]
        wallet(new_id) == NewWallet(new_id, user_id, currency, address)
        done(r, w) == Finish("create_wallet", args, r, users, w, transactions)
    IN  IF UuidCheck(user_id) = "TypeError"
        THEN done(Rejected("TypeError", <<>>), wallets)
        ELSE IF UuidCheck(user_id) = "False"
        THEN done(Rejected("ValueError", <<"warning">>), wallets)
        ELSE IF AddressCheck(address, currency) = "TypeError"
        THEN done(Rejected("TypeError", <<>>), wallets)
        ELSE IF AddressCheck(address, currency) = "False"
        THEN done(Rejected("ValueError", <<"warning">>), wallets)
        ELSE \E fail \in StoreFails, new_id \in uuid4(WalletIds, wallets) :
               IF fail
               THEN done(RolledBackRaised, wallets)
               ELSE done(ReturnedRows({wallet(new_id)}),
                         wallets \cup {wallet(new_id)})

get_wallet_by_id(wallet_id) ==
    LET args == [wallet_id |-> wallet_id]
        done(r) == Finish("get_wallet_by_id", args, r, users, wallets, transactions)
    IN  IF UuidCheck(wallet_id) = "TypeError"
        THEN done(Rejected("TypeError", <<>>))
        ELSE IF UuidCheck(wallet_id) = "False"
        THEN done(Rejected("ValueError", <<"warning">>))
        ELSE \E fail \in StoreFails : IF fail
        THEN done(Propagated)
        ELSE done(ReturnedRows({w \in wallets : w.id = wallet_id}))

get_user_wallets(user_id) ==
    LET args == [user_id |-> user_id]
        done(r) == Finish("get_user_wallets", args, r, users, wallets, transactions)
    IN  IF UuidCheck(user_id) = "TypeError"
        THEN done(Rejected("TypeError", <<>>))
        ELSE IF UuidCheck(user_id) = "False"
        THEN done(Rejected("ValueError", <<"warning">>))
        ELSE \E fail \in StoreFails : IF fail
        THEN done(Propagated)
        ELSE done(ReturnedRows({w \in wallets : w.user_id = user_id}))

\* `if new_balance < 0: raise ValueError(...)`: no log line, no session.
BalanceRejectedBelowMinusOne(new_balance) == new_balance < -1
BalanceRejected(new_balance) == new_balance < 0

NegativeBalance == Rejected("ValueError", <<>>)

\* except Exception: rollback, log, return False.  `raise False` for an
\* absent wallet is itself a TypeError raised inside the try, and ends here.
BalanceUpdateFailedRaises ==
    Outcome("raise", "NoValue", {}, "SQLAlchemyError", 1, 1, 1, <<"error">>)
BalanceUpdateFailed == Outcome("return", "False", {}, "none", 1, 1, 1, <<"error">>)

update_wallet_balance(wallet_id, new_balance) ==
    LET args == [wallet_id |-> wallet_id, new_balance |-> new_balance]
        done(r, w) == Finish("update_wallet_balance", args, r, users, w, transactions)
        found == {w \in wallets : w.id = wallet_id}
    IN  IF UuidCheck(wallet_id) = "TypeError"
        THEN done(Rejected("TypeError", <<>>), wallets)
        ELSE IF UuidCheck(wallet_id) = "False"
        THEN done(Rejected("ValueError", <<"warning">>), wallets)
        ELSE IF BalanceRejected(new_balance)
        THEN done(NegativeBalance, wallets)
        ELSE \E fail \in StoreFails : IF fail \/ found = {}
        THEN done(BalanceUpdateFailed, wallets)
        ELSE \E wallet \in found :
               done(Returned("True"),
                    (wallets \ {wallet}) \cup
                        {[wallet EXCEPT !.balance = new_balance,
                                        !.updated_at = now]})


(***************************************************************************)
(* TransactionRepository.  transaction_type and status are compared only   *)
(* for equality and are written as TLA+ strings; an omitted filter (None)  *)
(* is "<None>".                                                            *)
(***************************************************************************)
NoneStr == "<None>"

CreateTypes   == {"deposit", "withdrawal", "tranfer"}
FilterTypes   == {"deposit", "withdrawal", "transfer"}
StatusesWithRefunded == {"pending", "completed", "failed", "refunded"}
Statuses      == {"pending", "completed", "failed"}

\* `if x:` on an optional string.
Truthy(x) == x # None /\ Len(x) > 0

\* The row under the model's column names (the address column is
\* desination_address); the declarative base whose constructor receives the
\* keyword destination_address is not among the sources, and the row is
\* taken to hold what the call passes.
NewTransaction(id, user_id, wallet_id, transaction_type, amount, fee, destination_address) ==
    [id |-> id, user_id |-> user_id, wallet_id |-> wallet_id,
     transaction_type |-> transaction_type, amount |-> amount, fee |-> fee,
     desination_address |-> destination_address, tx_hash |-> None,
     status |-> "pending", created_at |-> now, updated_at |-> now]

\* try: add, commit, return / except: rollback, log, raise; there is no
\* finally clause, so the session is never closed.
CreateTransactionReturned(rows) == Outcome("return", "rows", rows, "none", 1, 0, 0, <<>>)

CreateTransactionFailed ==
    Outcome("raise", "NoValue", {}, "SQLAlchemyError", 1, 0, 1, <<"error">>)

create_transaction(user_id, wallet_id, transaction_type, amount, fee, destination_address) ==
    LET args == [user_id |-> user_id, wallet_id |-> wallet_id,
                 transaction_type |-> transaction_type, amount |-> amount,
                 fee |-> fee, destination_address |-> destination_address]
        transaction(new_id) ==
            NewTransaction(new_id, user_id, wallet_id, transaction_type,
                           amount, fee, destination_address)
        done(r, t) == Finish("create_transaction", args, r, users, wallets, t)
    IN  IF UuidCheck(user_id) = "TypeError"
        THEN done(Rejected("TypeError", <<>>), transactions)
        ELSE IF UuidCheck(user_id) = "False"
        THEN done(Rejected("ValueError", <<"warning">>), transactions)
        ELSE IF UuidCheck(wallet_id) = "TypeError"
        THEN done(Rejected("TypeError", <<>>), transactions)
        ELSE IF UuidCheck(wallet_id) = "False"
        THEN done(Rejected("ValueError", <<"warning">>), transactions)
        ELSE IF transaction_type \notin CreateTypes
        THEN done(Rejected("ValueError", <<>>), transactions)
        ELSE IF amount <= 0
        THEN done(Rejected("ValueError", <<>>), transactions)
        ELSE IF fee < 0
        THEN done(Rejected("ValueError", <<>>), transactions)
        ELSE IF /\ transaction_type = "withdrawal"
                /\ Truthy(destination_address)
                /\ AddressCheck(destination_address, None) = "False"
        THEN done(Rejected("ValueError", <<"warning">>), transactions)
        ELSE \E fail \in StoreFails, new_id \in uuid4(TxIds, transactions) :
               IF fail
               THEN done(CreateTransactionFailed, transactions)
               ELSE done(CreateTransactionReturned({transaction(new_id)}),
                         transactions \cup {transaction(new_id)})

get_transaction_by_id(transaction_id) ==
    LET args == [transaction_id |-> transaction_id]
        done(r) == Finish("get_transaction_by_id", args, r, users, wallets,
                          transactions)
    IN  IF UuidCheck(transaction_id) = "TypeError"
        THEN done(Rejected("TypeError", <<>>))
        ELSE IF UuidCheck(transaction_id) = "False"
        THEN done(Rejected("ValueError", <<"warning">>))
        ELSE \E fail \in StoreFails : IF fail
        THEN done(Propagated)
        ELSE done(ReturnedRows({t \in transactions : t.id = transaction_id}))

\* `limit = min((1, limit), 100)` compares the tuple (1, limit) with 100:
\* a TypeError inside the try, for every limit; finally closes the session.
GetUserTransactionsLimit == Outcome("raise", "NoValue", {}, "TypeError", 1, 1, 0, <<>>)

get_user_transactions(user_id, limit, offset, transaction_type, status) ==
    LET args == [user_id |-> user_id, limit |-> limit, offset |-> offset,
                 transaction_type |-> transaction_type, status |-> status]
        done(r) == Finish("get_user_transactions", args, r, users, wallets,
                          transactions)
    IN  IF UuidCheck(user_id) = "TypeError"
        THEN done(Rejected("TypeError", <<>>))
        ELSE IF UuidCheck(user_id) = "False"
        THEN done(Rejected("ValueError", <<"warning">>))
        ELSE done(GetUserTransactionsLimit)

SetStatusOnceCompleted(transaction, status, tx_hash) ==
    [transaction EXCEPT
        !.status = IF @ = "completed" THEN @ ELSE status,
        !.tx_hash = IF Truthy(tx_hash) THEN tx_hash ELSE @,
        !.updated_at = now]
\* transaction.status = status; `if tx_hash:` transaction.tx_hash = tx_hash;
\* transaction.updated_at = datetime.utcnow()
SetStatus(transaction, status, tx_hash) ==
    [transaction EXCEPT
        !.status = status,
        !.tx_hash = IF Truthy(tx_hash) THEN tx_hash ELSE @,
        !.updated_at = now]

update_transaction_status(transaction_id, status, tx_hash) ==
    LET args == [transaction_id |-> transaction_id, status |-> status,
                 tx_hash |-> tx_hash]
        done(r, t) == Finish("update_transaction_status", args, r, users,
                             wallets, t)
        found == {t \in transactions : t.id = transaction_id}
    IN  IF UuidCheck(transaction_id) = "TypeError"
        THEN done(Rejected("TypeError", <<>>), transactions)
        ELSE IF UuidCheck(transaction_id) = "False"
        THEN done(Rejected("ValueError", <<"warning">>), transactions)
        ELSE IF status \notin Statuses
        THEN done(Rejected("ValueError", <<"warning">>), transactions)
        ELSE \E fail \in StoreFails : IF fail
        THEN done(RolledBackRaised, transactions)
        ELSE IF found = {}
        THEN done(Returned("False"), transactions)
        ELSE \E transaction \in found :
               done(Returned("True"),
                    (transactions \ {transaction}) \cup
                        {SetStatus(transaction, status, tx_hash)})

SearchTransactionsFilterAnyUser(term, user_id) ==
    {t \in transactions :
        \/ ilike(t.id, term)
        \/ ilike(t.tx_hash, term)
        \/ ilike(t.desination_address, term)}
\* filter(user_id == u), then or_(id, tx_hash, desination_address ILIKE).
SearchTransactionsFilter(term, user_id) ==
    {t \in transactions :
        /\ t.user_id = user_id
        /\ \/ ilike(t.id, term)
           \/ ilike(t.tx_hash, term)
           \/ ilike(t.desination_address, term)}

search_transactions(search_term, limit, user_id) ==
    LET args == [search_term |-> search_term, limit |-> limit,
                 user_id |-> user_id]
        done(r) == Finish("search_transactions", args, r, users, wallets,
                          transactions)
    IN  IF search_term = None
        THEN done(Rejected("TypeError", <<>>))
        ELSE IF UuidCheck(user_id) = "TypeError"
        THEN done(Rejected("TypeError", <<>>))
        ELSE IF UuidCheck(user_id) = "False"
        THEN done(Rejected("ValueError", <<"warning">>))
        ELSE \E fail \in StoreFails : IF fail
        THEN done(Propagated)
        ELSE IF ~Truthy(user_id)
        THEN done(ReturnedRows({}))
        ELSE \E res \in Limited(SearchTransactionsFilter(
                                    sanitize_string(search_term), user_id),
                                Clamp(limit)) :
                done(ReturnedRows(res))

\* One call of a UserRepository method, its arguments drawn from the sets.
UserCall(emails, usernames, ids, terms, limits, maps) ==
    \/ \E email \in emails, username \in usernames :
          create_user(email, username, H1)
    \/ \E user_id \in ids : get_user_by_id(user_id)
    \/ \E email \in emails : get_user_by_email(email)
    \/ \E term \in terms, limit \in limits : search_users(term, limit)
    \/ \E user_id \in ids, fields \in maps : update_user(user_id, fields)

\* One call of a WalletRepository method.
WalletCall(user_ids, currencies, addresses, ids, balances) ==
    \/ \E user_id \in user_ids, currency \in currencies, address \in addresses :
          create_wallet(user_id, currency, address)
    \/ \E wallet_id \in ids : get_wallet_by_id(wallet_id)
    \/ \E user_id \in user_ids : get_user_wallets(user_id)
    \/ \E wallet_id \in ids, new_balance \in balances :
          update_wallet_balance(wallet_id, new_balance)

\* One call of a TransactionRepository method.
TxCall(creates, ids, user_ids, limits, statuses, hashes, terms) ==
    \/ \E a \in creates :
          create_transaction(a.user_id, a.wallet_id, a.transaction_type,
                             a.amount, a.fee, a.destination_address)
    \/ \E transaction_id \in ids : get_transaction_by_id(transaction_id)
    \/ \E user_id \in user_ids, limit \in limits :
          get_user_transactions(user_id, limit, 0, NoneStr, NoneStr)
    \/ \E transaction_id \in ids, status \in statuses, tx_hash \in hashes :
          update_transaction_status(transaction_id, status, tx_hash)
    \/ \E term \in terms, limit \in limits, user_id \in user_ids \cup {None} :
          search_transactions(term, limit, user_id)

NextUser ==
    UserCall(Emails, Usernames, UserIdArgs, SearchTerms, Limits, FieldMaps)

NextWallet ==
    WalletCall({Uuid("a"), BadId}, CurrencyArgs, AddressArgs, WalletIdArgs,
               Balances)

NextTx ==
    TxCall(TxCreateArgs, {Uuid("e"), BadId}, UserIdArgs, Limits, StatusArgs,
           HashArgs, TxSearchTerms)

\* Calls of all three repositories, each argument valid or invalid.
Next ==
    \/ UserCall({E1, BadEmail}, {N1, Probe}, {Uuid("a"), BadId}, {Probe}, {0},
                {FieldMaps1[i] : i \in DOMAIN FieldMaps1})
    \/ WalletCall({Uuid("a"), BadId}, {ETH}, AddressArgs, {Uuid("c"), BadId},
                  {-1, 5})
    \/ TxCall(TxCreateArgs, {Uuid("e"), BadId}, {Uuid("a"), BadId}, {0},
              StatusArgs, {None}, {Probe})

Bounded(commits) == now' <= commits /\ sessions' <= MaxOpenSessions

Spec       == Init /\ [][Next /\ Bounded(MaxCommits)]_vars
SpecUser   == Init /\ [][NextUser /\ Bounded(MaxUserCommits)]_vars
SpecWallet == Init /\ [][NextWallet /\ Bounded(MaxWalletCommits)]_vars
SpecTx     == Init /\ [][NextTx /\ Bounded(MaxTxCommits)]_vars

\* The transaction status: one valid deposit per id, every status, listed
\* or not, with and without a tx_hash.
NextStatus ==
    TxCall({ValidDeposit}, {Uuid("e"), BadId}, {Uuid("a")}, {0},
           StatusUpdateArgs, HashArgs, {<<"-">>})

SpecStatus == Init /\ [][NextStatus /\ Bounded(MaxStatusCommits)]_vars

(***************************************************************************)
(* Properties                                                              *)
(***************************************************************************)
Stores == <<users, wallets, transactions>>

RejectedInvalid(c) == c.outcome = "raise" /\ c.exc = "ValueError"

\* C1: after every call, every session the call obtained has been closed:
\* no session is open, and the call obtained at most one.
C1_SessionsClosed ==
    sessions = 0 /\ call.opened = call.closed /\ call.opened <= 1

\* C2: a call that raises the invalid-input error obtained no session and
\* left users, wallets and transactions as they were.
C2_RejectedBeforeStore ==
    [][RejectedInvalid(call') =>
          /\ call'.opened = 0
          /\ sessions' = sessions
          /\ Stores' = Stores]_vars

\* An update_user call whose map holds a valid allowed field ahead of an
\* invalid email was rejected, on a stored user.
C2_Witness ==
    /\ call.op = "update_user"
    /\ RejectedInvalid(call)
    /\ call.args.fields = FieldMaps1[2]
    /\ \E u \in users : u.id = call.args.user_id /\ u.is_active = PyTrue

MutatingReraise ==
    {"create_user", "update_user", "create_wallet", "create_transaction",
     "update_transaction_status"}

WalletAbsent(c) == ~\E w \in wallets : w.id = c.args.wallet_id

\* C4 as claimed: with a well-formed wallet id, update_wallet_balance returns
\* False, and does not raise, when new_balance is negative and when no wallet
\* has that id.
C4_ReturnsFalse ==
    (/\ call.op = "update_wallet_balance"
     /\ UuidCheck(call.args.wallet_id) = "True"
     /\ (call.args.new_balance < 0 \/ WalletAbsent(call))) =>
        call.outcome = "return" /\ call.value = "False"

\* C4 as amended: with a well-formed wallet id, a negative new_balance raises
\* the invalid-input error with no session obtained; a new_balance >= 0 for
\* an id no wallet has returns False and does not raise.
C4_RaisesOrReturnsFalse ==
    (call.op = "update_wallet_balance"
        /\ UuidCheck(call.args.wallet_id) = "True") =>
        /\ call.args.new_balance < 0 =>
              RejectedInvalid(call) /\ call.opened = 0
        /\ (call.args.new_balance >= 0 /\ WalletAbsent(call)) =>
              call.outcome = "return" /\ call.value = "False"

\* Both cases have happened: a wallet is stored, and the last call named an
\* id no wallet has, with a balance >= 0.
C4_Witness ==
    /\ call.op = "update_wallet_balance"
    /\ UuidCheck(call.args.wallet_id) = "True"
    /\ call.args.new_balance >= 0
    /\ WalletAbsent(call)
    /\ wallets # {}
    /\ call.value = "False"

\* C5: every stored wallet has balance >= 0, the wallet create_wallet
\* returns is stored with balance 0, and update_wallet_balance with a
\* negative new_balance leaves every wallet as it was.
C5_BalanceNonNegative ==
    [][/\ \A w \in wallets' : w.balance >= 0
       /\ (call'.op = "create_wallet" /\ call'.outcome = "return") =>
             /\ call'.rows # {}
             /\ \A w \in call'.rows : w \in wallets' /\ w.balance = 0
       /\ (call'.op = "update_wallet_balance" /\ call'.args.new_balance < 0) =>
             wallets' = wallets]_vars

\* A negative update was attempted on a stored wallet whose balance is 5.
C5_Witness ==
    /\ call.op = "update_wallet_balance"
    /\ call.args.new_balance < 0
    /\ \E w \in wallets : w.id = call.args.wallet_id /\ w.balance = 5

\* C6: search_transactions without a user_id returns the empty list and
\* does not raise.
C6_NoUserIdEmpty ==
    (call.op = "search_transactions" /\ call.args.user_id = None) =>
        call.outcome = "return" /\ call.rows = {}

\* C7: every transaction search_transactions returns for user_id u is a
\* stored transaction of u.
C7_OnlyOwnRows ==
    (call.op = "search_transactions" /\ call.outcome = "return") =>
        \A t \in call.rows :
            t \in transactions /\ t.user_id = call.args.user_id

\* A search returned a row while another user's row matched the same term.
C7_Witness ==
    /\ call.op = "search_transactions"
    /\ call.outcome = "return"
    /\ call.rows # {}
    /\ \E t \in transactions :
          /\ t.user_id # call.args.user_id
          /\ ilike(t.id, sanitize_string(call.args.search_term))

OnlyDisallowed(fields) ==
    \A i \in DOMAIN fields : fields[i].k \notin
        {"email", "username", "is_active", "is_verified"}

\* C8: update_user with a well-formed id and a map whose keys are all
\* disallowed returns False and leaves every stored user as it was.
C8_DisallowedOnly ==
    [][(/\ call'.op = "update_user"
        /\ UuidCheck(call'.args.user_id) = "True"
        /\ OnlyDisallowed(call'.args.fields)) =>
          /\ call'.outcome = "return"
          /\ call'.value = "False"
          /\ users' = users]_vars

\* Such a call, with a non-empty map, was made on a stored user.
C8_Witness ==
    /\ call.op = "update_user"
    /\ OnlyDisallowed(call.args.fields)
    /\ Len(call.args.fields) > 0
    /\ \E u \in users : u.id = call.args.user_id
    /\ call.value = "False"

\* C9: update_user returns a boolean whenever it returns.
C9_ReturnsBoolean ==
    (call.op = "update_user" /\ call.outcome = "return") =>
        call.value \in {"True", "False"}

\* C10: get_user_by_id on the id a create_user returned, with no committed
\* update of that user since, yields a user with the email and username
\* create_user was called with.
C10_CreateThenGet ==
    (call.op = "get_user_by_id" /\ call.outcome = "return") =>
        \A c \in created :
            c.id = call.args.user_id =>
                /\ call.rows # {}
                /\ \A u \in call.rows :
                      u.email = c.email /\ u.username = c.username

\* The lookup followed a create_user, with a second user stored as well.
C10_Witness ==
    /\ call.op = "get_user_by_id"
    /\ call.outcome = "return"
    /\ \E c \in created : c.id = call.args.user_id
    /\ Cardinality(users) = 2

SearchUsersOr(term) ==
    {u \in users : ilike(u.username, term) \/ ilike(u.email, term)}

\* C11: search_users returns at most min(max(1, limit), 100) users, each one
\* matching the sanitized term in its username or in its email, and returns
\* every such user when they are no more than the limit.
C11_SearchUsersOr ==
    (call.op = "search_users" /\ call.outcome = "return") =>
        LET match == SearchUsersOr(sanitize_string(call.args.search_term))
        IN  /\ Cardinality(call.rows) <= Clamp(call.args.limit)
            /\ call.rows \subseteq match
            /\ Cardinality(match) <= Clamp(call.args.limit) =>
                  match \subseteq call.rows

WellFormedCreate(a) ==
    /\ UuidCheck(a.user_id) = "True"
    /\ UuidCheck(a.wallet_id) = "True"
    /\ a.amount > 0
    /\ a.fee >= 0

\* C12: create_transaction with well-formed ids, amount > 0 and fee >= 0 is
\* not rejected as invalid input when the type is deposit or transfer (or a
\* withdrawal to a well-formed address), and what it returns is stored; with
\* any other type it raises the invalid-input error before any session.
C12_TypesAccepted ==
    (call.op = "create_transaction" /\ WellFormedCreate(call.args)) =>
        /\ (\/ call.args.transaction_type \in {"deposit", "transfer"}
            \/ /\ call.args.transaction_type = "withdrawal"
               /\ call.args.destination_address = EthAddr) =>
              /\ ~RejectedInvalid(call)
              /\ call.outcome = "return" =>
                    call.rows # {} /\ call.rows \subseteq transactions
        /\ call.args.transaction_type
              \notin {"deposit", "withdrawal", "transfer"} =>
              RejectedInvalid(call) /\ call.opened = 0

\* C13: every stored withdrawal has a destination address that is supplied
\* (not None, not empty) and passes validate_crypto_address.
C13_WithdrawalHasAddress ==
    \A t \in transactions :
        t.transaction_type = "withdrawal" =>
            /\ Truthy(t.desination_address)
            /\ AddressCheck(t.desination_address, None) = "True"

\* C14: get_user_transactions with a well-formed user_id returns a list (it
\* does not end in a TypeError) of at most min(max(1, limit), 100)
\* transactions, each one stored, belonging to user_id and satisfying the
\* type and status filters that name an allowed value.
C14_ReturnsUserTransactions ==
    (/\ call.op = "get_user_transactions"
     /\ UuidCheck(call.args.user_id) = "True") =>
        /\ call.exc # "TypeError"
        /\ call.outcome = "return" =>
              /\ Cardinality(call.rows) <= Clamp(call.args.limit)
              /\ \A t \in call.rows :
                    /\ t \in transactions
                    /\ t.user_id = call.args.user_id
                    /\ call.args.transaction_type \in FilterTypes =>
                          t.transaction_type = call.args.transaction_type
                    /\ call.args.status \in Statuses =>
                          t.status = call.args.status

\* C15: every stored wallet's currency is a known code and its address
\* matches that currency's pattern.
C15_AddressMatchesCurrency ==
    \A w \in wallets :
        /\ w.currency \in Currencies
        /\ AddressCheck(w.address, w.currency) = "True"

(***************************************************************************)
(* The validators on their own: one application to one input.  The input   *)
(* is drawn in the initial state; the action applies the validator to it.  *)
(***************************************************************************)
MaxProbeLen == 3

ProbeAlphabet == {"a", "@", ".", "'"}

\* Every string over the alphabet up to the length bound.
ShortStrings == UNION {[1..n -> ProbeAlphabet] : n \in 0..MaxProbeLen}

\* What a caller may pass: None, short strings, and the ids, emails,
\* usernames and addresses the repositories are called with.
ValidatorInputs ==
    ShortStrings \cup IdValues \cup EmailValues \cup UsernameValues
        \cup AddressValues

Pending(op, args) ==
    [op |-> op, args |-> args, outcome |-> "pending", value |-> "NoValue",
     rows |-> {}, exc |-> "none", opened |-> 0, closed |-> 0,
     rollbacks |-> 0, log |-> <<>>]

InitValidator ==
    /\ users = {}
    /\ wallets = {}
    /\ transactions = {}
    /\ sessions = 0
    /\ now = 0
    /\ created = {}
    /\ replaced = {}
    /\ sql = NoSql
    /\ \E v \in ValidatorInputs :
          \/ call = Pending("validate_uuid", [value |-> v])
          \/ call = Pending("validate_email", [email |-> v])
          \/ call = Pending("validate_username", [username |-> v])
          \/ \E c \in CurrencyValues :
                call = Pending("validate_crypto_address",
                               [address |-> v, currency |-> c])

\* The validator returns its boolean, or the exception escapes it.
Validated(op, result) ==
    /\ call.op = op
    /\ call.outcome = "pending"
    /\ call' = [call EXCEPT
                  !.outcome = IF result \in {"True", "False"}
                              THEN "return" ELSE "raise",
                  !.value = IF result \in {"True", "False"}
                            THEN result ELSE "NoValue",
                  !.exc = IF result \in {"True", "False"}
                          THEN "none" ELSE result]
    /\ UNCHANGED <<users, wallets, transactions, sessions, now, created,
                   replaced, sql>>

NextValidator ==
    \/ Validated("validate_uuid", validate_uuid(call.args.value))
    \/ Validated("validate_email", validate_email(call.args.email))
    \/ Validated("validate_username", validate_username(call.args.username))
    \/ Validated("validate_crypto_address",
                 validate_crypto_address(call.args.address,
                                         call.args.currency))

SpecValidator == InitValidator /\ [][NextValidator]_vars

ValidatorOps ==
    {"validate_uuid", "validate_email", "validate_username",
     "validate_crypto_address"}

\* C16: a validator applied to any input, None included, returns True or
\* False and raises nothing.
C16_ValidatorsNeverRaise ==
    (call.op \in ValidatorOps /\ call.outcome # "pending") =>
        call.outcome = "return" /\ call.value \in {"True", "False"}

ProbeChars == {"'", "\"", "\\", ";", " "}

HasProbeChars(s) == s # None /\ \E i \in DOMAIN s : s[i] \in ProbeChars

\* C17: for a string s holding a quote, a backslash, a semicolon or a space,
\* create_user with username s raises the invalid-input error, search_users
\* and search_transactions (user_id omitted or well-formed) with search term
\* s return a list unless the store fails, and all three leave users,
\* wallets and transactions as they were.
C17_ProbeLeavesStores ==
    [][/\ (/\ call'.op = "create_user"
           /\ HasProbeChars(call'.args.username)) =>
             RejectedInvalid(call') /\ Stores' = Stores
       /\ (/\ call'.op = "search_users"
           /\ HasProbeChars(call'.args.search_term)) =>
             /\ call'.exc # "SQLAlchemyError" => call'.outcome = "return"
             /\ Stores' = Stores
       /\ (/\ call'.op = "search_transactions"
           /\ HasProbeChars(call'.args.search_term)
           /\ UuidCheck(call'.args.user_id) # "False") =>
             /\ call'.exc # "SQLAlchemyError" => call'.outcome = "return"
             /\ Stores' = Stores]_vars

\* C18: after every call, no two stored users share an email or a username
\* and every stored email and username passes its validator; a create_user
\* whose email or username is already stored raises and adds no user.
C18_UniqueAndValid ==
    [][/\ \A a, b \in users' :
             a # b => a.email # b.email /\ a.username # b.username
       /\ \A u \in users' :
             EmailCheck(u.email) = "True" /\ UsernameCheck(u.username) = "True"
       /\ (/\ call'.op = "create_user"
           /\ \E u \in users : \/ u.email = call'.args.email
                               \/ u.username = call'.args.username) =>
             call'.outcome = "raise" /\ users' = users]_vars

\* create_user was called with a new username and an email that a stored
\* user got from update_user, and raised.
C18_Witness ==
    /\ call.op = "create_user"
    /\ call.outcome = "raise"
    /\ \A u \in users : u.username # call.args.username
    /\ \E u \in users :
          u.email = call.args.email /\ u.updated_at # u.created_at

StatusValues == {"pending", "completed", "failed"}

StatusUpdate(c) ==
    c.op = "update_transaction_status" /\ UuidCheck(c.args.transaction_id) = "True"

Matching(rows, c) == {t \in rows : t.id = c.args.transaction_id}

\* C19: every stored transaction's status is pending, completed or failed;
\* the transaction create_transaction returns is stored with status pending;
\* update_transaction_status with any other status raises the invalid-input
\* error and changes no transaction, and with a listed status and an id no
\* transaction has it changes no transaction and, unless the store fails,
\* returns False.
C19_StatusInSet ==
    [][/\ \A t \in transactions' : t.status \in StatusValues
       /\ (call'.op = "create_transaction" /\ call'.outcome = "return") =>
             /\ call'.rows # {}
             /\ \A t \in call'.rows : t \in transactions' /\ t.status = "pending"
       /\ (StatusUpdate(call') /\ call'.args.status \notin StatusValues) =>
             RejectedInvalid(call') /\ transactions' = transactions
       /\ (/\ StatusUpdate(call')
           /\ call'.args.status \in StatusValues
           /\ Matching(transactions, call') = {}) =>
             /\ transactions' = transactions
             /\ call'.exc # "SQLAlchemyError" =>
                   call'.outcome = "return" /\ call'.value = "False"]_vars

\* An unlisted status was refused for a stored transaction that an earlier
\* update had set to completed.
C19_Witness ==
    /\ StatusUpdate(call)
    /\ call.args.status \notin StatusValues
    /\ RejectedInvalid(call)
    /\ \E t \in Matching(transactions, call) : t.status = "completed"

\* C20: update_transaction_status with a listed status on a stored
\* transaction, whatever its current status, returns True unless the store
\* fails, and the transaction is then stored with the new status, with the
\* tx_hash it had when tx_hash is omitted and the given tx_hash otherwise,
\* and with nothing else but updated_at changed.
C20_AnyTransition ==
    [][(/\ StatusUpdate(call')
        /\ call'.args.status \in StatusValues
        /\ Matching(transactions, call') # {}
        /\ call'.exc # "SQLAlchemyError") =>
          /\ call'.outcome = "return"
          /\ call'.value = "True"
          /\ \A old \in Matching(transactions, call') :
                \E new \in transactions' :
                   /\ new = [old EXCEPT !.status = new.status,
                                        !.tx_hash = new.tx_hash,
                                        !.updated_at = new.updated_at]
                   /\ new.status = call'.args.status
                   /\ new.tx_hash = IF call'.args.tx_hash = None
                                    THEN old.tx_hash
                                    ELSE call'.args.tx_hash
          /\ \A t \in transactions \ Matching(transactions, call') :
                t \in transactions']_vars

\* A completed transaction holding a tx_hash was set back to pending with
\* tx_hash omitted.
C20_Witness ==
    /\ StatusUpdate(call)
    /\ call.args.status = "pending"
    /\ call.args.tx_hash = None
    /\ call.value = "True"
    /\ \E old \in replaced :
          /\ old.status = "completed"
          /\ old.tx_hash = Hash1
          /\ \E t \in transactions :
                t.id = old.id /\ t.status = "pending" /\ t.tx_hash = Hash1

(***************************************************************************)
(* secure_sort_results (main.py): one call on its arguments.  Table and    *)
(* column names and the direction are compared for membership and put into *)
(* the statement text as they are; they are written as TLA+ strings, and   *)
(* the text is the sequence of the f-string's pieces.                      *)
(***************************************************************************)
allowed_tables == {"users", "wallets", "transactions"}

allowed_columns_any(table_name) ==
    {"id", "email", "username", "user_id", "currency", "balance", "amount",
     "status", "created_at"}
allowed_columns(table_name) ==
    CASE table_name = "users" -> {"id", "email", "username", "created_at"}
      [] table_name = "wallets" ->
           {"id", "user_id", "currency", "balance", "created_at"}
      [] table_name = "transactions" ->
           {"id", "user_id", "amount", "created_at", "status"}

\* What a caller may pass.
TableArgs == allowed_tables \cup {"accounts", "users; DROP TABLE users"}
ColumnArgs ==
    {"id", "email", "username", "user_id", "currency", "balance", "amount",
     "status", "created_at", "password_hash", "address", "id; DROP TABLE users"}
DirectionArgs == {"ASC", "DESC", "asc", "ASC; DROP TABLE users"}

InitSort ==
    /\ users = {}
    /\ wallets = {}
    /\ transactions = {}
    /\ sessions = 0
    /\ now = 0
    /\ created = {}
    /\ replaced = {}
    /\ sql = NoSql
    /\ \E table_name \in TableArgs, sort_column \in ColumnArgs,
          sort_direction \in DirectionArgs :
          call = Pending("secure_sort_results",
                         [table_name |-> table_name,
                          sort_column |-> sort_column,
                          sort_direction |-> sort_direction])

\* `if sort_direction not in ('ASC', 'DESC'): sort_direction = 'ASC'`
SortDirection(sort_direction) ==
    IF sort_direction \notin {"ASC", "DESC"} THEN "ASC" ELSE sort_direction

\* text(f"SELECT * FROM {table_name} ORDER BY {sort_column} :sort_direction")
SortQuery(table_name, sort_column) ==
    <<"SELECT * FROM ", table_name, " ORDER BY ", sort_column,
      " :sort_direction">>

\* cursor.fetchall(): the rows of the table.
TableRows(table_name) ==
    CASE table_name = "users" -> users
      [] table_name = "wallets" -> wallets
      [] table_name = "transactions" -> transactions

secure_sort_results(table_name, sort_column, sort_direction) ==
    LET query == SortQuery(table_name, sort_column)
        statement == [text |-> query,
                      params |-> [sort_direction |->
                                     SortDirection(sort_direction)]]
        done(outcome, value, rows, exc, q) ==
            /\ call' = [call EXCEPT !.outcome = outcome, !.value = value,
                                    !.rows = rows, !.exc = exc]
            /\ sql' = q
            /\ UNCHANGED <<users, wallets, transactions, sessions, now,
                           created, replaced>>
    IN  /\ call.op = "secure_sort_results"
        /\ call.outcome = "pending"
        /\ IF table_name \notin allowed_tables
           THEN done("raise", "NoValue", {}, "ValueError", NoSql)
           ELSE IF sort_column \notin allowed_columns(table_name)
           THEN done("raise", "NoValue", {}, "ValueError", NoSql)
           ELSE \E fail \in StoreFails :
                  IF fail
                  THEN done("raise", "NoValue", {}, "DatabaseError",
                            [built |-> {query}, executed |-> {statement}])
                  ELSE done("return", "rows", TableRows(table_name), "none",
                            [built |-> {query}, executed |-> {statement}])

NextSort ==
    secure_sort_results(call.args.table_name, call.args.sort_column,
                        call.args.sort_direction)

SpecSort == InitSort /\ [][NextSort]_vars

SortWhitelisted(a) ==
    \/ a.table_name = "users"
          /\ a.sort_column \in {"id", "email", "username", "created_at"}
    \/ a.table_name = "wallets"
          /\ a.sort_column \in
                {"id", "user_id", "currency", "balance", "created_at"}
    \/ a.table_name = "transactions"
          /\ a.sort_column \in
                {"id", "user_id", "amount", "created_at", "status"}

\* C21: a finished secure_sort_results call built and executed a statement
\* only for a table of users, wallets, transactions with a column listed
\* for that table, and then exactly one, naming that table and column, with
\* the direction ASC or DESC as given and ASC for anything else; for any
\* other table or column it raised ValueError with no statement built or
\* executed.
C21_WhitelistedSort ==
    (call.op = "secure_sort_results" /\ call.outcome # "pending") =>
        IF SortWhitelisted(call.args)
        THEN /\ ~RejectedInvalid(call)
             /\ sql.built =
                   {<<"SELECT * FROM ", call.args.table_name, " ORDER BY ",
                      call.args.sort_column, " :sort_direction">>}
             /\ \A st \in sql.executed :
                   /\ st.text \in sql.built
                   /\ st.params.sort_direction =
                         IF call.args.sort_direction \in {"ASC", "DESC"}
                         THEN call.args.sort_direction ELSE "ASC"
             /\ Cardinality(sql.executed) = 1
        ELSE RejectedInvalid(call) /\ sql = [built |-> {}, executed |-> {}]

\* A statement was executed with ASC in place of an unlisted direction.
C21_Witness ==
    /\ call.op = "secure_sort_results"
    /\ call.outcome = "return"
    /\ call.args.sort_direction \notin {"ASC", "DESC"}
    /\ \E st \in sql.executed : st.params.sort_direction = "ASC"

=============================================================================
